---- MODULE Spec2Model ----
(***************************************************************************)
(* Model of the stream resolver of youtube-video-downloader: the three     *)
(* serverless function variants (ytstream, RapidAPI+y2mate, Piped).        *)
(* One resolution request is followed from its arrival to its response;    *)
(* every awaited upstream fetch is a step of its own.                      *)
(*                                                                         *)
(* JavaScript strings that the code parses, formats or matches (quality,   *)
(* qualityLabel, mimeType) are sequences of one-character strings, so that *)
(* parseInt, toLowerCase, startsWith, includes and replace are computed.   *)
(* Urls, error messages and endpoint names are opaque strings.             *)
(*                                                                         *)
(* The React client (the page that asks oEmbed for the video details and   *)
(* the resolver for a link) is a second state machine, ClientSpec; the url *)
(* the user types is a sequence of characters, so that trim and the        *)
(* patterns of extractVideoId are computed.                                *)
(***************************************************************************)
EXTENDS Integers, Sequences, FiniteSets, TLC

VARIABLES variant, rapidApiKey, req, pc, idx, contacted, keyRead,
          lastOutcome, failed, accepted, data, picked, resp

\* the client: its React state, the calls of fetchVideoInfo that await oEmbed
\* (oldest first), the call of handleDownload that awaits the resolver, the
\* video identifier of the last url submitted, and what the page did since
\* handleDownload was last called: the tabs opened, the anchors clicked
VARIABLES url, videoInfo, selectedQuality, loading, downloading, error,
          downloadSuccess, fetches, download, submitted, opened, clicked

svars == <<variant, rapidApiKey, req, pc, idx, contacted, keyRead,
           lastOutcome, failed, accepted, data, picked, resp>>

cvars == <<url, videoInfo, selectedQuality, loading, downloading, error,
           downloadSuccess, fetches, download, submitted, opened, clicked>>

vars == <<svars, cvars>>

(***************************************************************************)
(* Bounds of the model.                                                    *)
(***************************************************************************)
\* the largest number of stream descriptors one provider payload carries
MaxStreams == 2

(***************************************************************************)
(* JavaScript values.                                                      *)
(***************************************************************************)
\* an absent string property (undefined), distinct from every string
Undefined == <<"undefined">>
\* an absent numeric property
NoNumber == 0 - 2
\* the result of parseInt on a string without leading digits
NaN == 0 - 1
\* an absent url / credential (opaque strings)
NoUrl == "undefined"

\* truthiness of a string value: undefined and '' are falsy
Truthy(s) == s # Undefined /\ s # <<>>
\* truthiness of an opaque string (url, key, link)
TruthyUrl(u) == u # NoUrl /\ u # ""

Range(s) == {s[k] : k \in 1..Len(s)}

UpperChars == <<"A","B","C","D","E","F","G","H","I","J","K","L","M",
                "N","O","P","Q","R","S","T","U","V","W","X","Y","Z">>
LowerChars == <<"a","b","c","d","e","f","g","h","i","j","k","l","m",
                "n","o","p","q","r","s","t","u","v","w","x","y","z">>
DigitChars == <<"0","1","2","3","4","5","6","7","8","9">>

\* the lower-case letter of each upper-case letter
LowerOf == [c \in Range(UpperChars) |->
              LowerChars[CHOOSE k \in 1..Len(UpperChars) : UpperChars[k] = c]]

\* String.prototype.toLowerCase
ToLowerCase(s) ==
  [k \in 1..Len(s) |-> IF s[k] \in DOMAIN LowerOf THEN LowerOf[s[k]] ELSE s[k]]

\* String.prototype.startsWith
StartsWith(s, p) == Len(s) >= Len(p) /\ SubSeq(s, 1, Len(p)) = p

\* String.prototype.includes
Includes(s, p) ==
  \E k \in 1..(Len(s) - Len(p) + 1) : SubSeq(s, k, k + Len(p) - 1) = p

\* String.prototype.replace with a string pattern: the first occurrence only
Replace(s, p, r) ==
  IF Includes(s, p)
  THEN LET k == CHOOSE j \in 1..(Len(s) - Len(p) + 1) :
                  /\ SubSeq(s, j, j + Len(p) - 1) = p
                  /\ \A h \in 1..(j - 1) : SubSeq(s, h, h + Len(p) - 1) # p
       IN SubSeq(s, 1, k - 1) \o r \o SubSeq(s, k + Len(p), Len(s))
  ELSE s

\* the value of each digit character
DigitOf == [c \in Range(DigitChars) |->
              (CHOOSE k \in 1..Len(DigitChars) : DigitChars[k] = c) - 1]

\* the number of leading digit characters of s
RECURSIVE LeadingDigits(_)
LeadingDigits(s) ==
  IF s = <<>> \/ Head(s) \notin DOMAIN DigitOf THEN 0 ELSE 1 + LeadingDigits(Tail(s))

RECURSIVE DigitsValue(_, _)
DigitsValue(s, acc) ==
  IF s = <<>> THEN acc ELSE DigitsValue(Tail(s), 10 * acc + DigitOf[Head(s)])

ParseDigits(s, n) ==
  IF n = 0 THEN NaN ELSE DigitsValue(SubSeq(s, 1, n), 0)

\* parseInt(s) in base 10 for unsigned input without leading white space:
\* the value of the leading digits, NaN when there are none
ParseInt(s) == ParseDigits(s, LeadingDigits(s))

\* Math.abs(a - b), NaN when either is NaN
AbsDiff(a, b) ==
  IF a = NaN \/ b = NaN THEN NaN
  ELSE IF a >= b THEN a - b ELSE b - a

\* the sign a comparator hands to Array.prototype.sort; NaN counts as 0
CmpSub(a, b) == IF a = NaN \/ b = NaN THEN 0 ELSE a - b

(***************************************************************************)
(* Array.prototype.sort: a stable sort.  cmp[a, b] is the value of the     *)
(* comparator on the elements a and b of the array: cmp[a, b] < 0 puts a   *)
(* first, cmp[a, b] > 0 puts b first, 0 keeps the order of the array.      *)
(***************************************************************************)
RECURSIVE InsertSorted(_, _, _)
InsertSorted(cmp, x, s) ==
  IF s = <<>> THEN <<x>>
  ELSE IF cmp[x, Head(s)] < 0 THEN <<x>> \o s
  ELSE <<Head(s)>> \o InsertSorted(cmp, x, Tail(s))

RECURSIVE SortBy(_, _)
SortBy(cmp, s) ==
  IF s = <<>> THEN <<>>
  ELSE InsertSorted(cmp, s[Len(s)], SortBy(cmp, SubSeq(s, 1, Len(s) - 1)))

\* the index of the first element of an array among the indices hits of the
\* elements that satisfy a predicate, 0 when there is none
\* (Array.prototype.find; Array.prototype.findIndex + 1)
FirstIndex(hits) ==
  IF hits = {} THEN 0 ELSE CHOOSE k \in hits : \A j \in hits : k <= j

\* all sequences over S of length at most n
SeqUpTo(S, n) == UNION {[1..k -> S] : k \in 0..n}


(***************************************************************************)
(* String constants of the program.                                        *)
(***************************************************************************)
VideoMp4 == <<"v","i","d","e","o","/","m","p","4">>
VideoWebm == <<"v","i","d","e","o","/","w","e","b","m">>
AudioMp4 == <<"a","u","d","i","o","/","m","p","4">>
AudioWebm == <<"a","u","d","i","o","/","w","e","b","m">>
VideoPrefix == <<"v","i","d","e","o","/">>
AudioPrefix == <<"a","u","d","i","o","/">>
StrMp4 == <<"m","p","4">>
StrAac == <<"a","a","c">>
StrAudio == <<"a","u","d","i","o">>
Str4K == <<"4","K">>
Str2160 == <<"2","1","6","0">>
L2160p == <<"2","1","6","0","p">>
L1440p == <<"1","4","4","0","p">>
L1080p == <<"1","0","8","0","p">>
L720p == <<"7","2","0","p">>
L480p == <<"4","8","0","p">>
L360p == <<"3","6","0","p">>
L240p == <<"2","4","0","p">>
L144p == <<"1","4","4","p">>

\* the quality values the client offers (type Quality, const qualities)
Qualities ==
  { <<"1","4","4">>, <<"2","4","0">>, <<"3","6","0">>, <<"4","8","0">>,
    <<"7","2","0">>, <<"1","0","8","0">>, <<"1","4","4","0">>,
    <<"2","1","6","0">>, StrAudio }

\* a video identifier as extractVideoId yields it
SomeVideoId == "dQw4w9WgXcQ"

(***************************************************************************)
(* Requests.  The body of a POST is not JSON at all, the JSON value null,  *)
(* a JSON scalar, or a JSON object with or without a videoId.              *)
(***************************************************************************)
Bodies ==
  { [kind |-> k, videoId |-> NoUrl, quality |-> <<"7","2","0">>] :
      k \in {"notjson", "null", "scalar"} }
  \cup
  { [kind |-> "object", videoId |-> v, quality |-> q] :
      v \in {NoUrl, "", SomeVideoId}, q \in Qualities }

Requests ==
  { [method |-> "OPTIONS", body |-> [kind |-> "notjson", videoId |-> NoUrl,
                                     quality |-> <<"7","2","0">>]] }
  \cup { [method |-> "POST", body |-> b] : b \in Bodies }

(***************************************************************************)
(* Responses.                                                              *)
(***************************************************************************)
NoResponse ==
  [status |-> 0, cors |-> FALSE, json |-> FALSE, error |-> "", url |-> NoUrl,
   mimeType |-> Undefined, type |-> "", quality |-> Undefined,
   videoOnly |-> "undefined", audioUrl |-> NoUrl, fallbackUrl |-> NoUrl,
   filename |-> ""]

\* new Response(null, { headers: corsHeaders })
OptionsResponse == [NoResponse EXCEPT !.status = 200, !.cors = TRUE]

\* new Response(JSON.stringify({ error }), { status, headers })
ErrorResponse(status, msg) ==
  [NoResponse EXCEPT !.status = status, !.cors = TRUE, !.json = TRUE,
                     !.error = msg]

\* InternalError built without the CORS headers
InternalErrorNoCors ==
  [NoResponse EXCEPT !.status = 500, !.json = TRUE,
                     !.error = "Internal server error"]

\* the catch block of each handler
InternalError == ErrorResponse(500, "Internal server error")

NoPick == [none |-> TRUE]
NoData == <<>>
\* an absent array property
NoList == <<NoPick>>

Variants == {"ytstream", "y2mate", "piped"}

\* videoInfo is null; extractVideoId returned null
NoVideoInfo == [none |-> TRUE]
Null == "null"
\* handleDownload is not running
NoDownload == [none |-> TRUE]

\* the page as it is mounted: the useState initial values, nothing awaited
ClientIdle ==
  /\ url = <<>>
  /\ videoInfo = NoVideoInfo
  /\ selectedQuality = <<"7","2","0">>
  /\ loading = FALSE
  /\ downloading = FALSE
  /\ error = ""
  /\ downloadSuccess = FALSE
  /\ fetches = <<>>
  /\ download = NoDownload
  /\ submitted = Null
  /\ opened = <<>>
  /\ clicked = <<>>

Init ==
  /\ ClientIdle
  /\ variant \in Variants
  /\ rapidApiKey \in (IF variant = "piped" THEN {NoUrl} ELSE {NoUrl, "key"})
  /\ req \in Requests
  /\ pc = "start"
  /\ idx = 0
  /\ contacted = <<>>
  /\ keyRead = FALSE
  /\ lastOutcome = "none"
  /\ failed = 0
  /\ accepted = "none"
  /\ data = NoData
  /\ picked = NoPick
  /\ resp = NoResponse

\* the handler returns r: nothing else changes
Respond(r) ==
  /\ resp' = r
  /\ pc' = "done"

\* req.json() and the destructuring of its result throw
BodyThrows(b) == b.kind \in {"notjson", "null"}

\* const { videoId } = await req.json(); a scalar has no such property
VideoIdOf(b) == IF b.kind = "object" THEN b.videoId ELSE NoUrl

\* the local variable holding the chosen descriptor (best / picked) and the
\* response the handler returns
Result(pk, r) == [picked |-> pk, resp |-> r]

\* the handler returns res.resp, having chosen res.picked
Answer(res) ==
  /\ picked' = res.picked
  /\ Respond(res.resp)

\* a[0] || c[0]
FirstOr(a, c) ==
  IF a # <<>> THEN a[1] ELSE IF c # <<>> THEN c[1] ELSE NoPick

\* [...(x || [])]
OrEmpty(list) == IF list = NoList THEN <<>> ELSE list

\* f.mimeType?.startsWith(p)
MimeStartsWith(f, p) == f.mimeType # Undefined /\ StartsWith(f.mimeType, p)

\* f.mimeType?.includes(p)
MimeIncludes(f, p) == f.mimeType # Undefined /\ Includes(f.mimeType, p)

(***************************************************************************)
(* ytstream variant.                                                       *)
(***************************************************************************)
\* stream descriptors a ytstream payload may carry (interface RapidFormat)
YtVideoFormats ==
  { [url |-> u, mimeType |-> VideoMp4, hasAudio |-> a, bitrate |-> 128,
     height |-> hl[1], qualityLabel |-> hl[2], quality |-> Undefined] :
      u \in {"", "https://yt/v"}, a \in {"false", "undefined"},
      hl \in {<<144, Undefined>>, <<NoNumber, L360p>>, <<720, L720p>>} }
  \cup
  { [url |-> "https://yt/v", mimeType |-> VideoMp4, hasAudio |-> "true",
     bitrate |-> b, height |-> 720, qualityLabel |-> L720p,
     quality |-> Undefined] : b \in {NoNumber, 64, 128} }

YtAudioFormats ==
  { [url |-> "https://yt/a", mimeType |-> AudioMp4, hasAudio |-> "undefined",
     bitrate |-> b, height |-> NoNumber, qualityLabel |-> Undefined,
     quality |-> Undefined] : b \in {NoNumber, 64, 128} }
  \cup
  { [url |-> "https://yt/a", mimeType |-> Undefined, hasAudio |-> a,
     bitrate |-> 128, height |-> NoNumber, qualityLabel |-> Undefined,
     quality |-> Undefined] : a \in {"true", "undefined"} }
  \cup
  { [url |-> "", mimeType |-> AudioWebm, hasAudio |-> "undefined",
     bitrate |-> 128, height |-> NoNumber, qualityLabel |-> Undefined,
     quality |-> Undefined] }

YtFormats == YtVideoFormats \cup YtAudioFormats

\* payloads of a 2xx ytstream answer, { formats, adaptiveFormats }: the first
\* descriptor under formats and the others under adaptiveFormats, or an
\* object with neither property
YtPayloads ==
  { [formats |-> IF fs = <<>> THEN <<>> ELSE <<fs[1]>>,
     adaptiveFormats |-> SubSeq(fs, 2, Len(fs))] :
      fs \in SeqUpTo(YtFormats, MaxStreams) }
  \cup { [formats |-> NoList, adaptiveFormats |-> NoList] }

\* [...(data.formats || []), ...(data.adaptiveFormats || [])]
allFormatsOf(p) == OrEmpty(p.formats) \o OrEmpty(p.adaptiveFormats)

\* (x.bitrate || 0)
BitrateOr0(f) == IF f.bitrate = NoNumber THEN 0 ELSE f.bitrate

\* ByBitrateDesc with the operands swapped: an ascending sort
ByBitrateAsc(a, b) == BitrateOr0(a) - BitrateOr0(b)

\* (a, b) => (b.bitrate || 0) - (a.bitrate || 0)
ByBitrateDesc(a, b) == BitrateOr0(b) - BitrateOr0(a)

\* f.mimeType?.startsWith('audio/') || (f.hasAudio && !f.mimeType?.startsWith('video/'))
IsAudioStream(f) ==
  \/ MimeStartsWith(f, AudioPrefix)
  \/ (f.hasAudio = "true" /\ ~MimeStartsWith(f, VideoPrefix))

\* f.mimeType?.startsWith('video/') && f.hasAudio !== false
IsCombinedForAudio(f) == MimeStartsWith(f, VideoPrefix) /\ f.hasAudio # "false"

\* list.sort((a, b) => (b.bitrate || 0) - (a.bitrate || 0))
sortByBitrate(list) ==
  SortBy([a \in Range(list), b \in Range(list) |-> ByBitrateDesc(a, b)], list)

audioStreams(all) == sortByBitrate(SelectSeq(all, IsAudioStream))

combinedForAudio(all) == sortByBitrate(SelectSeq(all, IsCombinedForAudio))

\* bestAudio with the two lists swapped: combined[0] || audioStreams[0]
bestAudioCombinedFirst(all) == FirstOr(combinedForAudio(all), audioStreams(all))

\* const best = audioStreams[0] || combined[0]
bestAudio(all) == FirstOr(audioStreams(all), combinedForAudio(all))

\* allFormats.filter(f => f.mimeType?.startsWith('video/'))
videoFormats(all) == SelectSeq(all, LAMBDA f : MimeStartsWith(f, VideoPrefix))

HasAudioNotFalse(f) == f.hasAudio # "false"
HasAudioFalse(f) == f.hasAudio = "false"
combined(all) == SelectSeq(videoFormats(all), HasAudioNotFalse)
videoOnly(all) == SelectSeq(videoFormats(all), HasAudioFalse)

\* a.height || parseInt(a.qualityLabel || '0')
HeightOf(f) ==
  IF f.height # NoNumber /\ f.height # 0 THEN f.height
  ELSE ParseInt(IF Truthy(f.qualityLabel) THEN f.qualityLabel ELSE <<"0">>)

\* Math.abs(height - target)
Distance(f, target) == AbsDiff(HeightOf(f), target)

\* closestTo(formats, target): the head of the array sorted by distance
closestTo(formats, target) ==
  FirstOr(SortBy([a \in Range(formats), b \in Range(formats) |->
                    CmpSub(Distance(a, target), Distance(b, target))],
                 formats),
          <<>>)

\* let picked = closestTo(combined, ...); let isVideoOnly = false;
\* if (!picked) { picked = closestTo(videoOnly, ...); isVideoOnly = !!picked }
PickOf(fromCombined, fromVideoOnly) ==
  IF fromCombined # NoPick
  THEN [picked |-> fromCombined, isVideoOnly |-> FALSE]
  ELSE [picked |-> fromVideoOnly, isVideoOnly |-> fromVideoOnly # NoPick]

pickVideo(all, target) ==
  PickOf(closestTo(combined(all), target), closestTo(videoOnly(all), target))

\* picked.qualityLabel || picked.quality || `${quality}p`
actualQuality(p, quality) ==
  IF Truthy(p.qualityLabel) THEN p.qualityLabel
  ELSE IF Truthy(p.quality) THEN p.quality
  ELSE quality \o <<"p">>

\* lines 105-117
YtAudioResult(best) ==
  Result(best,
    IF best = NoPick \/ ~TruthyUrl(best.url)
    THEN ErrorResponse(404, "No audio stream found.")
    ELSE [NoResponse EXCEPT !.status = 200, !.cors = TRUE, !.json = TRUE,
            !.url = best.url, !.mimeType = best.mimeType, !.type = "audio"])

\* lines 147-172
YtVideoResult(pick, quality) ==
  Result(pick.picked,
    IF pick.picked = NoPick \/ ~TruthyUrl(pick.picked.url)
    THEN ErrorResponse(404, "No suitable video stream found.")
    ELSE [NoResponse EXCEPT !.status = 200, !.cors = TRUE, !.json = TRUE,
            !.url = pick.picked.url,
            !.quality = actualQuality(pick.picked, quality),
            !.mimeType = pick.picked.mimeType,
            !.videoOnly = IF pick.isVideoOnly THEN "true" ELSE "false",
            !.type = "video"])

\* the part of the handler after allFormats is built (lines 87-172)
YtSelect(all, quality) ==
  IF all = <<>>
  THEN Result(NoPick, ErrorResponse(404, "No streams found for this video."))
  ELSE IF quality = StrAudio THEN YtAudioResult(bestAudio(all))
  ELSE IF videoFormats(all) = <<>>
  THEN Result(NoPick, ErrorResponse(404, "No video streams found."))
  ELSE YtVideoResult(pickVideo(all, ParseInt(quality)), quality)

ServeYtstream ==
  /\ UNCHANGED cvars
  /\ variant = "ytstream"
  /\ pc = "start"
  /\ UNCHANGED <<variant, rapidApiKey, req, idx, lastOutcome, failed, accepted,
                 data, picked>>
  /\ IF req.method = "OPTIONS"
     THEN Respond(OptionsResponse) /\ UNCHANGED <<contacted, keyRead>>
     ELSE IF BodyThrows(req.body)
     THEN Respond(InternalError) /\ UNCHANGED <<contacted, keyRead>>
     ELSE IF ~TruthyUrl(VideoIdOf(req.body))
     THEN /\ Respond(ErrorResponse(400, "videoId is required"))
          /\ UNCHANGED <<contacted, keyRead>>
     ELSE /\ keyRead' = TRUE
          /\ IF ~TruthyUrl(rapidApiKey)
             THEN /\ Respond(ErrorResponse(503,
                      "Service not configured. Please set up a RapidAPI key."))
                  /\ UNCHANGED contacted
             ELSE /\ contacted' = Append(contacted, "ytstream")
                  /\ pc' = "fetch_ytstream"
                  /\ UNCHANGED resp

\* the response to a non-2xx status of the provider (lines 59-71)
YtStatusError(st) ==
  ErrorResponse(502,
    IF st = 429
    THEN "Too many requests - please wait a moment and try again."
    ELSE "Download service error (" \o ToString(st) \o "). Please try again.")

\* the awaited fetch of line 46 settles
YtstreamResponds ==
  /\ UNCHANGED cvars
  /\ variant = "ytstream"
  /\ pc = "fetch_ytstream"
  /\ UNCHANGED <<variant, rapidApiKey, req, idx, contacted, keyRead, accepted,
                 data, picked>>
  /\ \/ \* the fetch rejects: AbortSignal.timeout(20000) or a network error
        /\ lastOutcome' = "rejected"
        /\ failed' = failed + 1
        /\ Respond(InternalError)
     \/ \* !res.ok
        /\ \E st \in {429, 500} : Respond(YtStatusError(st))
        /\ lastOutcome' = "status"
        /\ failed' = failed + 1
     \/ \* res.ok
        /\ pc' = "json_ytstream"
        /\ lastOutcome' = "2xx"
        /\ UNCHANGED <<failed, resp>>

\* the awaited res.json() of line 73 settles and the handler runs to its end
YtstreamBody ==
  /\ UNCHANGED cvars
  /\ variant = "ytstream"
  /\ pc = "json_ytstream"
  /\ UNCHANGED <<variant, rapidApiKey, req, idx, contacted, keyRead>>
  /\ \/ \* res.json() or Object.keys(data) throws
        /\ lastOutcome' = "malformed"
        /\ failed' = failed + 1
        /\ Respond(InternalError)
        /\ UNCHANGED <<accepted, data, picked>>
     \/ \* a JSON object
        /\ \E p \in YtPayloads :
             /\ data' = allFormatsOf(p)
             /\ Answer(YtSelect(allFormatsOf(p), req.body.quality))
        /\ lastOutcome' = "ok"
        /\ accepted' = "ytstream"
        /\ UNCHANGED failed

(***************************************************************************)
(* Piped variant.                                                          *)
(***************************************************************************)
PIPED_INSTANCES ==
  << "https://pipedapi.kavin.rocks", "https://piped-api.garudalinux.org",
     "https://api.piped.projectsegfau.lt", "https://pipedapi.tokhmi.xyz" >>

\* interface PipedAudioStream
PipedAudioStreams ==
  { [url |-> "https://piped/a", mimeType |-> AudioMp4, bitrate |-> b] :
      b \in {64, 128} }
  \cup
  { [url |-> "https://piped/a", mimeType |-> AudioWebm, bitrate |-> 128],
    [url |-> "", mimeType |-> AudioMp4, bitrate |-> 128] }

\* interface PipedVideoStream
PipedVideoStreams ==
  { [url |-> "https://piped/v", quality |-> q, mimeType |-> VideoMp4,
     videoOnly |-> vo] : q \in {L144p, L720p}, vo \in BOOLEAN }
  \cup
  { [url |-> "https://piped/v", quality |-> q, mimeType |-> VideoMp4,
     videoOnly |-> TRUE] : q \in {L1080p, L2160p} }
  \cup
  { [url |-> "https://piped/v", quality |-> L360p, mimeType |-> VideoMp4,
     videoOnly |-> FALSE],
    [url |-> "https://piped/v", quality |-> L720p, mimeType |-> VideoWebm,
     videoOnly |-> FALSE],
    [url |-> "", quality |-> L720p, mimeType |-> VideoMp4, videoOnly |-> FALSE],
    [url |-> "", quality |-> L144p, mimeType |-> VideoMp4, videoOnly |-> TRUE] }

\* payloads of a 2xx Piped answer (interface PipedResponse); either array
\* may be missing
PipedPayloads ==
  { p \in [audioStreams : SeqUpTo(PipedAudioStreams, MaxStreams),
            videoStreams : SeqUpTo(PipedVideoStreams, MaxStreams)] :
      Len(p.audioStreams) + Len(p.videoStreams) <= MaxStreams }
  \cup
  { [audioStreams |-> NoList, videoStreams |-> v] :
      v \in SeqUpTo(PipedVideoStreams, 1) \cup {NoList} }
  \cup
  { [audioStreams |-> a, videoStreams |-> NoList] :
      a \in SeqUpTo(PipedAudioStreams, 1) }

\* data.audioStreams || data.videoStreams: an array, even an empty one, is truthy
PipedAccepts(p) == p.audioStreams # NoList \/ p.videoStreams # NoList

\* [...(pipedData.audioStreams || [])].sort((a, b) => b.bitrate - a.bitrate)
pipedSortByBitrate(list) ==
  SortBy([a \in Range(list), b \in Range(list) |-> b.bitrate - a.bitrate],
         list)
pipedAudioSorted(p) == pipedSortByBitrate(OrEmpty(p.audioStreams))

\* s.mimeType?.includes('mp4') || s.mimeType?.includes('aac')
IsMp4OrAac(f) == MimeIncludes(f, StrMp4) \/ MimeIncludes(f, StrAac)

\* s[k - 1] when find(...) found it, else s[0]
FoundOrFirst(s, k) == IF k # 0 THEN s[k] ELSE FirstOr(s, <<>>)

\* audioStreams.find(mp4 or aac) || audioStreams[0]
preferMp4(sorted) ==
  FoundOrFirst(sorted, FirstIndex({k \in 1..Len(sorted) : IsMp4OrAac(sorted[k])}))

pipedBestAudio(p) == preferMp4(pipedAudioSorted(p))

\* quality === '2160' ? '4K' : `${quality}p`
targetQuality(quality) == IF quality = Str2160 THEN Str4K ELSE quality \o <<"p">>

qualityOrder == <<L2160p, Str4K, L1440p, L1080p, L720p, L480p, L360p, L240p, L144p>>

\* Array.prototype.findIndex, 0-based, -1 when no element satisfies the
\* predicate
FindIndex(hits) == FirstIndex(hits) - 1

\* q.toLowerCase() for each q of qualityOrder
qualityLower == [k \in 1..Len(qualityOrder) |-> ToLowerCase(qualityOrder[k])]

\* q.toLowerCase().replace('4k', '2160') for each q of qualityOrder
qualityPrefixes ==
  [k \in 1..Len(qualityOrder) |-> Replace(qualityLower[k], <<"4","k">>, Str2160)]

\* the index of the first entry of a list of strings equal to / a prefix of s
IndexEqual(s, list) == FindIndex({k \in 1..Len(list) : list[k] = s})
IndexPrefix(s, list) == FindIndex({k \in 1..Len(list) : StartsWith(s, list[k])})

\* qualityOrder.findIndex(q => q.toLowerCase() === targetQuality.toLowerCase())
targetIdx(quality) == IndexEqual(ToLowerCase(targetQuality(quality)), qualityLower)

\* qualityOrder.findIndex(q => s.quality?.toLowerCase()
\*                              .startsWith(q.toLowerCase().replace('4k', '2160')))
qualityIdx(st) ==
  IF st.quality = Undefined THEN 0 - 1
  ELSE IndexPrefix(ToLowerCase(st.quality), qualityPrefixes)

\* videoStreams.filter(s => !s.videoOnly && s.mimeType?.includes('mp4'))
combinedStreams(p) ==
  SelectSeq(OrEmpty(p.videoStreams),
            LAMBDA st : ~st.videoOnly /\ MimeIncludes(st, StrMp4))

\* videoStreams.filter(s => s.videoOnly && s.mimeType?.includes('mp4'))
videoOnlyStreams(p) ==
  SelectSeq(OrEmpty(p.videoStreams),
            LAMBDA st : st.videoOnly /\ MimeIncludes(st, StrMp4))

\* streams.find(s => s.quality?.toLowerCase() === targetQuality.toLowerCase())
exactIndex(streams, target) ==
  FirstIndex({k \in 1..Len(streams) :
                /\ streams[k].quality # Undefined
                /\ ToLowerCase(streams[k].quality) = target})

\* [...streams].sort((a, b) => ai - bi)
sortedByQuality(streams) ==
  SortBy([a \in Range(streams), b \in Range(streams) |->
            qualityIdx(a) - qualityIdx(b)],
         streams)

\* sorted.filter(s => si >= targetIdx)
atOrBelow(sorted, tIdx) == SelectSeq(sorted, LAMBDA st : qualityIdx(st) >= tIdx)

\* ExactOrBelow without the last resort sorted[0]: a quality ladder that
\* yields nothing when no stream is at or below the target
ExactOrBelowOnly(streams, exact, sorted, tIdx) ==
  IF exact # 0 THEN streams[exact] ELSE FirstOr(atOrBelow(sorted, tIdx), <<>>)

\* exact || atOrBelow[0] || sorted[0] || null
ExactOrBelow(streams, exact, sorted, tIdx) ==
  IF exact # 0 THEN streams[exact] ELSE FirstOr(atOrBelow(sorted, tIdx), sorted)

pickBestStream(streams, quality) ==
  ExactOrBelow(streams, exactIndex(streams, ToLowerCase(targetQuality(quality))),
               sortedByQuality(streams), targetIdx(quality))

\* qualityOrder.indexOf('720p')
IndexOf720p == IndexEqual(L720p, qualityOrder)

\* CombinedThenVideoOnly without the test of the target: the video-only pick
\* replaces the combined one whenever there is one
VideoOnlyWhenever(first, vo, wantsVideoOnly) ==
  IF vo # NoPick THEN vo ELSE first

\* lines 140-146: the pick among the combined streams, replaced by the pick
\* among the video-only streams when there is none or wantsVideoOnly
CombinedThenVideoOnly(first, vo, wantsVideoOnly) ==
  IF first = NoPick \/ wantsVideoOnly
  THEN (IF vo # NoPick THEN vo ELSE first)
  ELSE first

\* targetIdx < qualityOrder.indexOf('720p') && videoOnlyStreams.length > 0
WantsVideoOnly(p, quality) ==
  targetIdx(quality) < IndexOf720p /\ videoOnlyStreams(p) # <<>>

pipedPickedVideo(p, quality) ==
  CombinedThenVideoOnly(pickBestStream(combinedStreams(p), quality),
                        pickBestStream(videoOnlyStreams(p), quality),
                        WantsVideoOnly(p, quality))

\* the best audio stream returned beside a video-only stream
audioForVideo(p) == FirstOr(pipedAudioSorted(p), <<>>)

\* PipedAudioResult without the test of best.url
PipedAudioResultAnyUrl(best) ==
  Result(best,
    IF best = NoPick
    THEN ErrorResponse(404, "No audio stream found for this video.")
    ELSE [NoResponse EXCEPT !.status = 200, !.cors = TRUE, !.json = TRUE,
            !.url = best.url, !.mimeType = best.mimeType, !.type = "audio"])

\* lines 92-102
PipedAudioResult(best) ==
  Result(best,
    IF best = NoPick \/ ~TruthyUrl(best.url)
    THEN ErrorResponse(404, "No audio stream found for this video.")
    ELSE [NoResponse EXCEPT !.status = 200, !.cors = TRUE, !.json = TRUE,
            !.url = best.url, !.mimeType = best.mimeType, !.type = "audio"])

\* lines 148-168
PipedVideoResult(pk, afv) ==
  Result(pk,
    IF pk = NoPick \/ ~TruthyUrl(pk.url)
    THEN ErrorResponse(404, "No video stream found for the requested quality.")
    ELSE [NoResponse EXCEPT !.status = 200, !.cors = TRUE, !.json = TRUE,
            !.url = pk.url, !.quality = pk.quality, !.mimeType = pk.mimeType,
            !.videoOnly = IF pk.videoOnly THEN "true" ELSE "false",
            !.type = "video",
            !.audioUrl = IF pk.videoOnly /\ afv # NoPick THEN afv.url
                         ELSE NoUrl])

\* the part of the handler after fetchFromPiped returned data (lines 86-168)
PipedSelect(p, quality) ==
  IF quality = StrAudio THEN PipedAudioResult(pipedBestAudio(p))
  ELSE PipedVideoResult(pipedPickedVideo(p, quality), audioForVideo(p))

ServePiped ==
  /\ UNCHANGED cvars
  /\ variant = "piped"
  /\ pc = "start"
  /\ UNCHANGED <<variant, rapidApiKey, req, keyRead, lastOutcome, failed,
                 accepted, data, picked>>
  /\ IF req.method = "OPTIONS"
     THEN Respond(OptionsResponse) /\ UNCHANGED <<contacted, idx>>
     ELSE IF BodyThrows(req.body)
     THEN Respond(InternalError) /\ UNCHANGED <<contacted, idx>>
     ELSE IF ~TruthyUrl(VideoIdOf(req.body))
     THEN /\ Respond(ErrorResponse(400, "videoId is required"))
          /\ UNCHANGED <<contacted, idx>>
     ELSE \* fetchFromPiped: the first turn of the loop
          /\ idx' = 1
          /\ contacted' = Append(contacted, PIPED_INSTANCES[1])
          /\ pc' = "fetch_piped"
          /\ UNCHANGED resp

\* PipedNextInstance with the index off by one: the instance that just failed
\* is fetched again
PipedSameInstance ==
  /\ failed' = failed + 1
  /\ UNCHANGED <<accepted, data, picked>>
  /\ IF idx < Len(PIPED_INSTANCES)
     THEN /\ idx' = idx + 1
          /\ contacted' = Append(contacted, PIPED_INSTANCES[idx])
          /\ pc' = "fetch_piped"
          /\ UNCHANGED resp
     ELSE /\ Respond(ErrorResponse(502,
               "Could not retrieve video streams. The video may be unavailable."))
          /\ UNCHANGED <<idx, contacted>>

\* the turn of the loop of fetchFromPiped for instance idx did not return:
\* the next instance is fetched, or null is returned and the handler answers
PipedNextInstance ==
  /\ failed' = failed + 1
  /\ UNCHANGED <<accepted, data, picked>>
  /\ IF idx < Len(PIPED_INSTANCES)
     THEN /\ idx' = idx + 1
          /\ contacted' = Append(contacted, PIPED_INSTANCES[idx + 1])
          /\ pc' = "fetch_piped"
          /\ UNCHANGED resp
     ELSE /\ Respond(ErrorResponse(502,
               "Could not retrieve video streams. The video may be unavailable."))
          /\ UNCHANGED <<idx, contacted>>

\* the awaited fetch of line 40 settles
PipedResponds ==
  /\ UNCHANGED cvars
  /\ variant = "piped"
  /\ pc = "fetch_piped"
  /\ UNCHANGED <<variant, rapidApiKey, req, keyRead>>
  /\ \/ \* the fetch rejects (AbortSignal.timeout(8000), network error) and the
        \* catch block logs it, or the status is not 2xx
        /\ \E o \in {"rejected", "status"} : lastOutcome' = o
        /\ PipedNextInstance
     \/ \* res.ok
        /\ pc' = "json_piped"
        /\ lastOutcome' = "2xx"
        /\ UNCHANGED <<idx, contacted, failed, accepted, data, picked, resp>>

\* the awaited res.json() of line 47 settles; when the instance is accepted
\* fetchFromPiped returns and the handler runs to its end
PipedBody ==
  /\ UNCHANGED cvars
  /\ variant = "piped"
  /\ pc = "json_piped"
  /\ UNCHANGED <<variant, rapidApiKey, req, keyRead>>
  /\ \/ \* res.json() throws, or reading a property of the JSON value throws
        /\ lastOutcome' = "malformed"
        /\ PipedNextInstance
     \/ \* a JSON object
        \E p \in PipedPayloads :
          IF PipedAccepts(p)
          THEN /\ data' = p
               /\ Answer(PipedSelect(p, req.body.quality))
               /\ lastOutcome' = "ok"
               /\ accepted' = PIPED_INSTANCES[idx]
               /\ UNCHANGED <<failed, idx, contacted>>
          ELSE /\ lastOutcome' = "nostreams"
               /\ PipedNextInstance

(***************************************************************************)
(* RapidAPI + y2mate variant.                                              *)
(***************************************************************************)
Str128 == <<"1","2","8">>
Str720 == <<"7","2","0">>

\* the host the RapidAPI fetch goes to (apiUrl, hostHeader)
RapidEndpoint(quality) ==
  IF quality = StrAudio THEN "youtube-mp36.p.rapidapi.com"
  ELSE "youtube-video-download-info.p.rapidapi.com"

AnalyzeEndpoint == "https://www.y2mate.com/mates/analyzeV2/ajax"
ConvertEndpoint == "https://www.y2mate.com/mates/convertV2/index"

\* `https://www.youtube.com/watch?v=${videoId}`
WatchUrl(videoId) == "https://www.youtube.com/watch?v=" \o videoId

\* the final fallback of the handler (lines 338-345)
Unavailable(videoId) ==
  [ErrorResponse(422, "direct_download_unavailable")
     EXCEPT !.fallbackUrl = WatchUrl(videoId)]

\* a 200 response of this variant: { url, filename? }
LinkResponse(u, name) ==
  [NoResponse EXCEPT !.status = 200, !.cors = TRUE, !.json = TRUE, !.url = u,
                     !.filename = name]

\* entries of data.formats of youtube-video-download-info
RapidFormats ==
  { [qualityLabel |-> l, url |-> u] :
      l \in {Undefined, L720p, <<"F","H","D">>}, u \in {NoUrl, "https://rapid/v"} }

\* payloads of a 2xx RapidAPI answer: youtube-mp36 answers { link },
\* youtube-video-download-info answers { formats }
RapidAudioPayloads ==
  { [link |-> l, formats |-> NoList] : l \in {NoUrl, "", "https://rapid/a.mp3"} }

RapidVideoPayloads ==
  { [link |-> NoUrl, formats |-> f] :
      f \in SeqUpTo(RapidFormats, MaxStreams) \cup {NoList} }

RapidPayloads(quality) ==
  IF quality = StrAudio THEN RapidAudioPayloads ELSE RapidVideoPayloads

qualityMap(quality) ==
  CASE quality = Str2160 -> <<L2160p, Str4K, <<"u","h","d">> >>
    [] quality = <<"1","4","4","0">> -> <<L1440p, <<"2","K">>, <<"q","h","d">> >>
    [] quality = <<"1","0","8","0">> -> <<L1080p, <<"f","h","d">>, <<"1","0","8","0">> >>
    [] quality = Str720 -> <<L720p, <<"h","d">>, Str720>>
    [] quality = <<"4","8","0">> -> <<L480p, <<"s","d">>, <<"4","8","0">> >>
    [] quality = <<"3","6","0">> -> <<L360p, <<"3","6","0">> >>
    [] quality = <<"2","4","0">> -> <<L240p, <<"2","4","0">> >>
    [] quality = <<"1","4","4">> -> <<L144p, <<"1","4","4">> >>
    [] OTHER -> <<L720p>>

\* data.formats.find(f => f.qualityLabel?.toLowerCase().includes(label.toLowerCase()))
findByLabel(formats, label) ==
  FirstIndex({k \in 1..Len(formats) :
                /\ formats[k].qualityLabel # Undefined
                /\ Includes(ToLowerCase(formats[k].qualityLabel), label)})

\* the loop over preferredLabels (lines 251-259): the url of the format found
\* for the first label whose format has a url
RECURSIVE labelLoop(_, _)
hitOrNext(formats, labels, k) ==
  IF k # 0 /\ TruthyUrl(formats[k].url) THEN formats[k].url
  ELSE labelLoop(formats, Tail(labels))

labelLoop(formats, labels) ==
  IF labels = <<>> THEN NoUrl
  ELSE hitOrNext(formats, labels,
                 findByLabel(formats, ToLowerCase(Head(labels))))

\* if (!downloadUrl && data.formats.length > 0) downloadUrl = data.formats[0].url
firstIfNone(formats, byLabel) ==
  IF ~TruthyUrl(byLabel) /\ Len(formats) > 0 THEN formats[1].url ELSE byLabel

\* downloadUrl after lines 248-263
downloadUrl(formats, quality) ==
  firstIfNone(formats, labelLoop(formats, qualityMap(quality)))

\* a falsy value does not pass if (data.link) / if (downloadUrl)
IfTruthy(u) == IF TruthyUrl(u) THEN u ELSE NoUrl

\* the url the RapidAPI branch returns, NoUrl when it falls through (229-272)
RapidUrl(p, quality) ==
  IF quality = StrAudio THEN IfTruthy(p.link)
  ELSE IF p.formats # NoList THEN IfTruthy(downloadUrl(p.formats, quality))
  ELSE NoUrl

\* entries of y2mateData.links.mp3 / .mp4, in property order
LinkEntries ==
  { [key |-> k, k |-> t] : k \in {Str128, Str720}, t \in {"", "k-token"} }

\* the values of a links object in property order: distinct keys, integer
\* keys ascending
LinkLists ==
  { l \in SeqUpTo(LinkEntries, MaxStreams) :
      \A i, j \in 1..Len(l) : i < j => ParseInt(l[i].key) < ParseInt(l[j].key) }

\* payloads of a 2xx analyzeV2 answer
AnalyzePayloads ==
  { [status |-> st, links |-> NoPick] : st \in {"ok", "error"} }
  \cup
  { [status |-> st, links |-> [mp3 |-> l[1], mp4 |-> l[2]]] :
      st \in {"ok", "error"},
      l \in ({NoList} \X (LinkLists \cup {NoList})) \cup (LinkLists \X {NoList}) }

\* isAudio ? '128' : quality
qualityKey(quality) == IF quality = StrAudio THEN Str128 ELSE quality

\* links[qualityKey] || Object.values(links)[0]
targetLink(links, key) ==
  FoundOrFirst(links, FirstIndex({k \in 1..Len(links) : links[k].key = key}))

\* targetLink && typeof targetLink === 'object' && 'k' in targetLink && targetLink.k
HasToken(link) == link # NoPick /\ TruthyUrl(link.k)

\* isAudio ? y2mateData.links.mp3 : y2mateData.links.mp4
linksFor(p, quality) == IF quality = StrAudio THEN p.links.mp3 ELSE p.links.mp4

\* the conditions of lines 295-302 under which the conversion is requested
AnalyzeUsable(p, quality) ==
  /\ p.status = "ok"
  /\ p.links # NoPick
  /\ linksFor(p, quality) # NoList
  /\ HasToken(targetLink(linksFor(p, quality), qualityKey(quality)))

\* payloads of a 2xx convertV2 answer
ConvertPayloads ==
  { [status |-> st, dlink |-> d] :
      st \in {"ok", "error"}, d \in {NoUrl, "", "https://y2mate/dl"} }

\* the y2mate fallback starts: the fetch of line 284 is issued
StartAnalyze ==
  /\ contacted' = Append(contacted, AnalyzeEndpoint)
  /\ pc' = "fetch_analyze"
  /\ UNCHANGED resp

ServeY2mate ==
  /\ UNCHANGED cvars
  /\ variant = "y2mate"
  /\ pc = "start"
  /\ UNCHANGED <<variant, rapidApiKey, req, idx, lastOutcome, failed, accepted,
                 data, picked>>
  /\ IF req.method = "OPTIONS"
     THEN Respond(OptionsResponse) /\ UNCHANGED <<contacted, keyRead>>
     ELSE IF BodyThrows(req.body)
     THEN Respond(InternalError) /\ UNCHANGED <<contacted, keyRead>>
     ELSE IF ~TruthyUrl(VideoIdOf(req.body))
     THEN /\ Respond(ErrorResponse(400, "videoId is required"))
          /\ UNCHANGED <<contacted, keyRead>>
     ELSE /\ keyRead' = TRUE
          /\ IF TruthyUrl(rapidApiKey)
             THEN /\ contacted' = Append(contacted, RapidEndpoint(req.body.quality))
                  /\ pc' = "fetch_rapid"
                  /\ UNCHANGED resp
             ELSE StartAnalyze

\* the awaited fetch of line 222 settles
RapidResponds ==
  /\ UNCHANGED cvars
  /\ variant = "y2mate"
  /\ pc = "fetch_rapid"
  /\ UNCHANGED <<variant, rapidApiKey, req, idx, keyRead, accepted, data, picked>>
  /\ \/ \* the fetch rejects: the catch block of the handler answers
        /\ lastOutcome' = "rejected"
        /\ failed' = failed + 1
        /\ Respond(InternalError)
        /\ UNCHANGED contacted
     \/ \* !response.ok: on to y2mate
        /\ lastOutcome' = "status"
        /\ failed' = failed + 1
        /\ StartAnalyze
     \/ \* response.ok
        /\ pc' = "json_rapid"
        /\ lastOutcome' = "2xx"
        /\ UNCHANGED <<failed, contacted, resp>>

\* lines 231-271 for the url u found in the payload p
RapidAnswer(p, u) ==
  IF TruthyUrl(u)
  THEN /\ Respond(LinkResponse(u, IF req.body.quality = StrAudio
                                  THEN "audio.mp3" ELSE "video.mp4"))
       /\ lastOutcome' = "ok"
       /\ accepted' = RapidEndpoint(req.body.quality)
       /\ data' = p
       /\ UNCHANGED <<failed, contacted>>
  ELSE /\ lastOutcome' = "nolink"
       /\ failed' = failed + 1
       /\ StartAnalyze
       /\ UNCHANGED <<accepted, data>>

\* the awaited response.json() of line 230 settles
RapidBody ==
  /\ UNCHANGED cvars
  /\ variant = "y2mate"
  /\ pc = "json_rapid"
  /\ UNCHANGED <<variant, rapidApiKey, req, idx, keyRead, picked>>
  /\ \/ \* response.json() throws, or reading a property of the value throws
        /\ lastOutcome' = "malformed"
        /\ failed' = failed + 1
        /\ Respond(InternalError)
        /\ UNCHANGED <<contacted, accepted, data>>
     \/ \* a JSON object
        \E p \in RapidPayloads(req.body.quality) :
          RapidAnswer(p, RapidUrl(p, req.body.quality))

\* the awaited fetch of line 284 settles
AnalyzeResponds ==
  /\ UNCHANGED cvars
  /\ variant = "y2mate"
  /\ pc = "fetch_analyze"
  /\ UNCHANGED <<variant, rapidApiKey, req, idx, keyRead, accepted, data,
                 picked, contacted>>
  /\ \/ \* the fetch rejects
        /\ lastOutcome' = "rejected"
        /\ failed' = failed + 1
        /\ Respond(InternalError)
     \/ \* !y2mateRes.ok: the final fallback
        /\ lastOutcome' = "status"
        /\ failed' = failed + 1
        /\ Respond(Unavailable(req.body.videoId))
     \/ \* y2mateRes.ok
        /\ pc' = "json_analyze"
        /\ lastOutcome' = "2xx"
        /\ UNCHANGED <<failed, resp>>

\* the awaited y2mateRes.json() of line 294 settles
AnalyzeBody ==
  /\ UNCHANGED cvars
  /\ variant = "y2mate"
  /\ pc = "json_analyze"
  /\ UNCHANGED <<variant, rapidApiKey, req, idx, keyRead, accepted, picked>>
  /\ \/ \* y2mateRes.json() throws
        /\ lastOutcome' = "malformed"
        /\ failed' = failed + 1
        /\ Respond(InternalError)
        /\ UNCHANGED <<contacted, data>>
     \/ \* a JSON object
        \E p \in AnalyzePayloads :
          IF AnalyzeUsable(p, req.body.quality)
          THEN \* the fetch of line 315 is issued
               /\ contacted' = Append(contacted, ConvertEndpoint)
               /\ pc' = "fetch_convert"
               /\ lastOutcome' = "analyzed"
               /\ data' = p
               /\ UNCHANGED <<failed, resp>>
          ELSE /\ lastOutcome' = "nolink"
               /\ failed' = failed + 1
               /\ Respond(Unavailable(req.body.videoId))
               /\ UNCHANGED <<contacted, data>>

\* the awaited fetch of line 315 settles
ConvertResponds ==
  /\ UNCHANGED cvars
  /\ variant = "y2mate"
  /\ pc = "fetch_convert"
  /\ UNCHANGED <<variant, rapidApiKey, req, idx, keyRead, accepted, data,
                 picked, contacted>>
  /\ \/ \* the fetch rejects
        /\ lastOutcome' = "rejected"
        /\ failed' = failed + 1
        /\ Respond(InternalError)
     \/ \* !convertRes.ok: the final fallback
        /\ lastOutcome' = "status"
        /\ failed' = failed + 1
        /\ Respond(Unavailable(req.body.videoId))
     \/ \* convertRes.ok
        /\ pc' = "json_convert"
        /\ lastOutcome' = "2xx"
        /\ UNCHANGED <<failed, resp>>

\* the awaited convertRes.json() of line 325 settles
ConvertBody ==
  /\ UNCHANGED cvars
  /\ variant = "y2mate"
  /\ pc = "json_convert"
  /\ UNCHANGED <<variant, rapidApiKey, req, idx, keyRead, picked, contacted>>
  /\ \/ \* convertRes.json() throws
        /\ lastOutcome' = "malformed"
        /\ failed' = failed + 1
        /\ Respond(InternalError)
        /\ UNCHANGED <<accepted, data>>
     \/ \* a JSON object
        \E p \in ConvertPayloads :
          IF p.status = "ok" /\ TruthyUrl(p.dlink)
          THEN /\ Respond(LinkResponse(p.dlink, ""))
               /\ lastOutcome' = "ok"
               /\ accepted' = ConvertEndpoint
               /\ data' = p
               /\ UNCHANGED failed
          ELSE /\ lastOutcome' = "nolink"
               /\ failed' = failed + 1
               /\ Respond(Unavailable(req.body.videoId))
               /\ UNCHANGED <<accepted, data>>

Next ==
  \/ ServeYtstream
  \/ YtstreamResponds
  \/ YtstreamBody
  \/ ServePiped
  \/ PipedResponds
  \/ PipedBody
  \/ ServeY2mate
  \/ RapidResponds
  \/ RapidBody
  \/ AnalyzeResponds
  \/ AnalyzeBody
  \/ ConvertResponds
  \/ ConvertBody

Spec == Init /\ [][Next]_vars

(***************************************************************************)
(* The client (the React page).  A handler runs without interruption up to *)
(* its first await; every awaited fetch and every awaited res.json() is a  *)
(* step of its own, so the calls interleave as the event loop lets them.   *)
(***************************************************************************)
\* the largest number of fetchVideoInfo calls awaiting oEmbed at once
MaxInFlight == 2

\* the number of characters of a video identifier: {11}
IdLength == 11
\* [a-zA-Z0-9_-]
IdChars ==
  Range(UpperChars) \cup Range(LowerChars) \cup Range(DigitChars) \cup {"_", "-"}

\* the two patterns of extractVideoId, each the alternatives that precede the
\* identifier
patterns ==
  << << <<"y","o","u","t","u","b","e",".","c","o","m","/","w","a","t","c",
          "h","?","v","=">>,
        <<"y","o","u","t","u",".","b","e","/">>,
        <<"y","o","u","t","u","b","e",".","c","o","m","/","e","m","b","e",
          "d","/">>,
        <<"y","o","u","t","u","b","e",".","c","o","m","/","v","/">> >>,
     << <<"y","o","u","t","u","b","e",".","c","o","m","/","s","h","o","r",
          "t","s","/">> >> >>

\* the pattern whose alternative is p matches at position k of u: p, then
\* IdLength identifier characters
MatchAt(u, p, k) ==
  /\ k + Len(p) + IdLength - 1 <= Len(u)
  /\ SubSeq(u, k, k + Len(p) - 1) = p
  /\ \A j \in 0..(IdLength - 1) : u[k + Len(p) + j] \in IdChars

\* u.match(pattern)[1]: the leftmost match, the first alternative that matches
\* there; <<>> when u.match(pattern) is null
MatchPattern(u, alts) ==
  LET k == FirstIndex({j \in 1..Len(u) :
                         \E a \in 1..Len(alts) : MatchAt(u, alts[a], j)})
      p == alts[FirstIndex({a \in 1..Len(alts) : MatchAt(u, alts[a], k)})]
  IN IF k = 0 THEN <<>>
     ELSE SubSeq(u, k + Len(p), k + Len(p) + IdLength - 1)

\* the string of a sequence of characters
RECURSIVE JoinChars(_)
JoinChars(s) == IF s = <<>> THEN "" ELSE s[1] \o JoinChars(Tail(s))

\* the first pattern that matches gives the identifier
extractVideoId(u) ==
  LET n == FirstIndex({m \in 1..Len(patterns) :
                         MatchPattern(u, patterns[m]) # <<>>})
  IN IF n = 0 THEN Null ELSE JoinChars(MatchPattern(u, patterns[n]))

\* String.prototype.trim
Trim(u) ==
  LET inked == {k \in 1..Len(u) : u[k] # " "}
  IN IF inked = {} THEN <<>>
     ELSE SubSeq(u, FirstIndex(inked),
                 CHOOSE k \in inked : \A j \in inked : j <= k)

\* what the user types: blanks, a watch url with a parameter after the
\* identifier, a shorts url between blanks, a youtu.be url whose identifier is
\* one character short
Urls ==
  { <<" ", " ">>,
    <<"h","t","t","p","s",":","/","/","w","w","w",".","y","o","u","t","u",
      "b","e",".","c","o","m","/","w","a","t","c","h","?","v","=","d","Q",
      "w","4","w","9","W","g","X","c","Q","&","t","=","1","s">>,
    <<" ","y","o","u","t","u","b","e",".","c","o","m","/","s","h","o","r",
      "t","s","/","a","b","c","_","D","E","F","-","1","2","3"," ">>,
    <<"h","t","t","p","s",":","/","/","y","o","u","t","u",".","b","e","/",
      "d","Q","w","4","w","9","W","g","X","c">> }

\* url.trim() and extractVideoId(url.trim()) of each of them and of the empty
\* url of the mounted page
Trimmed == [u \in Urls \cup {<<>>} |-> Trim(u)]
VideoIdIn == [u \in Urls \cup {<<>>} |-> extractVideoId(Trimmed[u])]

\* the quality buttons the user presses
SelectableQualities == { <<"7","2","0">>, StrAudio }

\* what the resolver answers a POST for videoId with, and what a gateway in
\* front of it answers (a page that is not JSON)
ResolverAnswers(videoId) ==
  { LinkResponse("https://cdn/v", ""),
    [LinkResponse(NoUrl, "") EXCEPT !.type = "video"],
    Unavailable(videoId),
    [Unavailable(videoId) EXCEPT !.status = 200],
    ErrorResponse(422, ""),
    ErrorResponse(404, "No suitable video stream found."),
    ErrorResponse(500, ""),
    [NoResponse EXCEPT !.status = 502] }

\* the resolver is not running while the page is followed
ServerIdle ==
  /\ variant = "y2mate"
  /\ rapidApiKey = NoUrl
  /\ req = [method |-> "POST",
            body |-> [kind |-> "object", videoId |-> SomeVideoId,
                      quality |-> <<"7","2","0">>]]
  /\ pc = "start"
  /\ idx = 0
  /\ contacted = <<>>
  /\ keyRead = FALSE
  /\ lastOutcome = "none"
  /\ failed = 0
  /\ accepted = "none"
  /\ data = NoData
  /\ picked = NoPick
  /\ resp = NoResponse

ClientInit == ServerIdle /\ ClientIdle

\* the input's onChange
EditUrl ==
  /\ \E u \in Urls \ {url} : url' = u
  /\ error' = ""
  /\ downloadSuccess' = FALSE
  /\ UNCHANGED <<videoInfo, selectedQuality, loading, downloading, fetches,
                 download, submitted, opened, clicked>>
  /\ UNCHANGED svars

\* a quality button, shown with the video details
SelectQuality ==
  /\ videoInfo # NoVideoInfo
  /\ \E q \in SelectableQualities \ {selectedQuality} : selectedQuality' = q
  /\ UNCHANGED <<url, videoInfo, loading, downloading, error, downloadSuccess,
                 fetches, download, submitted, opened, clicked>>
  /\ UNCHANGED svars

\* Submit without the test of videoId: whatever extractVideoId returned is
\* sent to oEmbed
SubmitUnchecked(trimmed, videoId) ==
  /\ videoInfo' = NoVideoInfo
  /\ downloadSuccess' = FALSE
  /\ submitted' = videoId
  /\ IF trimmed = <<>>
     THEN /\ error' = "Please enter a YouTube URL."
          /\ UNCHANGED <<loading, fetches>>
     ELSE /\ Len(fetches) < MaxInFlight
          /\ error' = ""
          /\ loading' = TRUE
          /\ fetches' = Append(fetches, [videoId |-> videoId, stage |-> "fetch"])
  /\ UNCHANGED <<url, selectedQuality, downloading, download, opened, clicked>>
  /\ UNCHANGED svars

\* fetchVideoInfo up to its await, trimmed being url.trim() and videoId what
\* extractVideoId makes of it
Submit(trimmed, videoId) ==
  /\ videoInfo' = NoVideoInfo
  /\ downloadSuccess' = FALSE
  /\ submitted' = videoId
  /\ IF trimmed = <<>>
     THEN /\ error' = "Please enter a YouTube URL."
          /\ UNCHANGED <<loading, fetches>>
     ELSE IF videoId = Null
     THEN /\ error' = "Invalid YouTube URL. Please check and try again."
          /\ UNCHANGED <<loading, fetches>>
     ELSE /\ Len(fetches) < MaxInFlight
          /\ error' = ""
          /\ loading' = TRUE
          /\ fetches' = Append(fetches, [videoId |-> videoId, stage |-> "fetch"])
  /\ UNCHANGED <<url, selectedQuality, downloading, download, opened, clicked>>
  /\ UNCHANGED svars

fetchVideoInfo == Submit(Trimmed[url], VideoIdIn[url])

\* the Get Video button, disabled while loading
ClickGetVideo == ~loading /\ fetchVideoInfo

\* a key pressed in the input: Enter calls fetchVideoInfo, whatever loading is
handleKeyDown == \E key \in {"Enter", "a"} : key = "Enter" /\ fetchVideoInfo

\* s without its element at index i
Without(s, i) == [k \in 1..(Len(s) - 1) |-> IF k < i THEN s[k] ELSE s[k + 1]]

\* the catch and the finally of fetchVideoInfo, in the call at index i
FetchFails(i) ==
  /\ error' = "Could not fetch video details. Please check the URL."
  /\ loading' = FALSE
  /\ fetches' = Without(fetches, i)
  /\ UNCHANGED videoInfo

\* await fetch(oembedUrl) settles: a 2xx answer, another answer, a rejection
OEmbedResponds ==
  /\ \E i \in 1..Len(fetches) :
       /\ fetches[i].stage = "fetch"
       /\ \E outcome \in {"ok", "not ok", "rejected"} :
            IF outcome = "ok"
            THEN /\ fetches' = [fetches EXCEPT ![i].stage = "json"]
                 /\ UNCHANGED <<videoInfo, loading, error>>
            ELSE FetchFails(i)
  /\ UNCHANGED <<url, selectedQuality, downloading, downloadSuccess, download,
                 submitted, opened, clicked>>
  /\ UNCHANGED svars

\* await res.json() settles: the details, or a rejection
OEmbedBody ==
  /\ \E i \in 1..Len(fetches) :
       /\ fetches[i].stage = "json"
       /\ \E outcome \in {"parsed", "rejected"} :
            IF outcome = "parsed"
            THEN /\ videoInfo' = [videoId |-> fetches[i].videoId,
                                  title |-> "title", author |-> "author"]
                 /\ loading' = FALSE
                 /\ fetches' = Without(fetches, i)
                 /\ UNCHANGED error
            ELSE FetchFails(i)
  /\ UNCHANGED <<url, selectedQuality, downloading, downloadSuccess, download,
                 submitted, opened, clicked>>
  /\ UNCHANGED svars

\* handleDownload up to its await; the Download button is shown with the
\* video details and disabled while downloading
handleDownload ==
  /\ videoInfo # NoVideoInfo
  /\ ~downloading
  /\ downloading' = TRUE
  /\ downloadSuccess' = FALSE
  /\ error' = ""
  /\ download' = [videoId |-> videoInfo.videoId, quality |-> selectedQuality,
                  stage |-> "fetch", res |-> NoResponse]
  /\ opened' = <<>>
  /\ clicked' = <<>>
  /\ UNCHANGED <<url, videoInfo, selectedQuality, loading, fetches, submitted>>
  /\ UNCHANGED svars

\* the catch of handleDownload without its finally
DownloadFailsBusy(message) ==
  /\ error' = message
  /\ download' = NoDownload
  /\ UNCHANGED <<downloading, downloadSuccess, opened, clicked>>

\* the catch and the finally of handleDownload
DownloadFails(message) ==
  /\ error' = message
  /\ downloading' = FALSE
  /\ download' = NoDownload
  /\ UNCHANGED <<downloadSuccess, opened, clicked>>

\* await fetch(fnUrl) settles: an answer, or a rejection
ResolverResponds ==
  /\ download # NoDownload
  /\ download.stage = "fetch"
  /\ \/ \E r \in ResolverAnswers(download.videoId) :
          /\ download' = [download EXCEPT !.stage = "json", !.res = r]
          /\ UNCHANGED <<downloading, downloadSuccess, error, opened, clicked>>
     \/ DownloadFails("Failed to fetch")
  /\ UNCHANGED <<url, videoInfo, selectedQuality, loading, fetches, submitted>>
  /\ UNCHANGED svars

\* IsUnavailable that looks at the status only
IsUnavailableByStatus(res) == res.status = 422

\* res.status === 422 || data.error === "direct_download_unavailable"
IsUnavailable(res) ==
  res.status = 422 \/ res.error = "direct_download_unavailable"

\* the rest of handleDownload once the answer res has been parsed
Deliver(res) ==
  IF IsUnavailable(res)
  THEN /\ opened' = Append(opened, WatchUrl(download.videoId))
       /\ error' = "Direct download is not available for this video. Opened YouTube instead."
       /\ downloading' = FALSE
       /\ download' = NoDownload
       /\ UNCHANGED <<downloadSuccess, clicked>>
  ELSE IF res.status < 200 \/ res.status > 299 \/ res.error # ""
  THEN DownloadFails(IF res.error # "" THEN res.error ELSE "Download failed.")
  ELSE IF TruthyUrl(res.url)
  THEN /\ clicked' = Append(clicked, res.url)
       /\ downloadSuccess' = TRUE
       /\ downloading' = FALSE
       /\ download' = NoDownload
       /\ UNCHANGED <<error, opened>>
  ELSE DownloadFails("No download link received.")

\* await res.json() settles: a rejection when the body is not JSON
ResolverBody ==
  /\ download # NoDownload
  /\ download.stage = "json"
  /\ IF download.res.json
     THEN Deliver(download.res)
     ELSE DownloadFails("Unexpected token < in JSON at position 0")
  /\ UNCHANGED <<url, videoInfo, selectedQuality, loading, fetches, submitted>>
  /\ UNCHANGED svars

ClientNext ==
  \/ EditUrl
  \/ SelectQuality
  \/ ClickGetVideo
  \/ handleKeyDown
  \/ OEmbedResponds
  \/ OEmbedBody
  \/ handleDownload
  \/ ResolverResponds
  \/ ResolverBody

ClientSpec == ClientInit /\ [][ClientNext]_vars

(***************************************************************************)
(* Properties of stream selection.                                         *)
(***************************************************************************)
\* a POST that variant v answered 200 with a descriptor of type t
Served(v, t) ==
  /\ pc = "done"
  /\ variant = v
  /\ req.method = "POST"
  /\ resp.status = 200
  /\ resp.type = t

\* the requested height
TargetHeight == ParseInt(req.body.quality)

\* the height a Piped stream declares in its quality label
LabelHeight(st) == ParseInt(st.quality)

C2_NearestHeight ==
  /\ Served("ytstream", "video") =>
       \A f \in Range(IF combined(data) # <<>> THEN combined(data)
                      ELSE videoOnly(data)) :
         Distance(picked, TargetHeight) <= Distance(f, TargetHeight)
  /\ Served("piped", "video") =>
       \A st \in Range(data.videoStreams) :
         (st.videoOnly = picked.videoOnly /\ MimeIncludes(st, StrMp4)) =>
           AbsDiff(LabelHeight(picked), TargetHeight)
             <= AbsDiff(LabelHeight(st), TargetHeight)

\* a POST for audio that variant v answered from an accepted payload
AudioAnswered(v) ==
  /\ pc = "done"
  /\ variant = v
  /\ req.method = "POST"
  /\ accepted # "none"
  /\ req.body.quality = StrAudio

\* C3: for quality = "audio", whenever the stream list holds an audio-only
\* descriptor, the descriptor chosen is an audio-only one, never a video-only
\* or combined one; the combined fallback is taken only when there is none.
C3_AudioOnlyFirst ==
  /\ (AudioAnswered("ytstream") /\ \E f \in Range(data) : IsAudioStream(f)) =>
       /\ picked \in Range(data)
       /\ IsAudioStream(picked)
       /\ ~MimeStartsWith(picked, VideoPrefix)
       /\ resp.status = 200 => (resp.url = picked.url /\ resp.type = "audio")
  /\ (AudioAnswered("ytstream") /\ picked # NoPick
        /\ MimeStartsWith(picked, VideoPrefix)) =>
       \A f \in Range(data) : ~IsAudioStream(f)
  /\ (AudioAnswered("piped") /\ OrEmpty(data.audioStreams) # <<>>) =>
       /\ picked \in Range(data.audioStreams)
       /\ picked \notin Range(OrEmpty(data.videoStreams))
       /\ resp.status = 200 => (resp.url = picked.url /\ resp.type = "audio")

\* audio was asked of a list holding an audio-only and a combined descriptor
C3_Witness ==
  /\ AudioAnswered("ytstream")
  /\ resp.status = 200
  /\ \E f \in Range(data) : IsAudioStream(f)
  /\ \E f \in Range(data) : IsCombinedForAudio(f)

\* f is in pool and no descriptor of pool declares a higher bitrate
HighestBitrate(f, pool) ==
  f \in pool /\ \A g \in pool : BitrateOr0(g) <= BitrateOr0(f)

\* the audio-only descriptors of a ytstream list, the combined ones when
\* there is none
YtAudioPool(all) ==
  IF \E f \in Range(all) : IsAudioStream(f)
  THEN {f \in Range(all) : IsAudioStream(f)}
  ELSE {f \in Range(all) : IsCombinedForAudio(f)}

\* the mp4/aac audio streams of a Piped payload, all of them when there is none
PipedAudioPool(p) ==
  IF \E f \in Range(p.audioStreams) : IsMp4OrAac(f)
  THEN {f \in Range(p.audioStreams) : IsMp4OrAac(f)}
  ELSE Range(p.audioStreams)

\* C4 as stated: for quality = "audio" the descriptor returned declares the
\* highest bitrate among the audio-only descriptors (the combined ones when
\* there is none); no other attribute lets a lower bitrate win.
C4_HighestBitrateOnly ==
  /\ Served("ytstream", "audio") =>
       HighestBitrate(picked, YtAudioPool(data))
  /\ Served("piped", "audio") =>
       HighestBitrate(picked, Range(data.audioStreams))

\* C4 amended: ytstream returns the audio-only descriptor of highest bitrate
\* (a missing bitrate counting as 0), the combined one of highest bitrate
\* when there is no audio-only one.  Piped returns the highest-bitrate audio
\* stream among those whose mime type includes mp4 or aac, among all audio
\* streams when there is none such, and has no combined fallback.
C4_HighestBitrate ==
  /\ Served("ytstream", "audio") =>
       /\ HighestBitrate(picked, YtAudioPool(data))
       /\ resp.url = picked.url
  /\ Served("piped", "audio") =>
       /\ HighestBitrate(picked, PipedAudioPool(data))
       /\ resp.url = picked.url

\* the list held audio-only descriptors of different bitrates, the higher
\* one not first
C4_Witness ==
  /\ Served("ytstream", "audio")
  /\ Len(data) = 2
  /\ IsAudioStream(data[1])
  /\ IsAudioStream(data[2])
  /\ BitrateOr0(data[1]) < BitrateOr0(data[2])
  /\ picked = data[2]


(***************************************************************************)
(* Properties of the provider fallback chain and of the responses.         *)
(***************************************************************************)
\* a POST has been answered
Answered == pc = "done" /\ req.method = "POST"

\* a POST carrying a videoId has been answered
AnsweredWithId ==
  /\ Answered
  /\ ~BodyThrows(req.body)
  /\ TruthyUrl(VideoIdOf(req.body))

\* the endpoint contacted last
LastContacted == contacted[Len(contacted)]

\* the number of stream descriptors of a Piped payload
PipedStreamCount(p) == Len(OrEmpty(p.audioStreams)) + Len(OrEmpty(p.videoStreams))

\* the payload RapidAPI answered holds a link / a non-empty format list
RapidHasStreams(p, quality) ==
  IF quality = StrAudio THEN TruthyUrl(p.link)
  ELSE p.formats # NoList /\ Len(p.formats) > 0

\* C5 as stated: the provider accepted is the first one, in the fixed order,
\* whose answer holds a non-empty stream list: an answer with only empty
\* lists is not accepted, and no provider is contacted after the accepted one.
C5_AcceptsNonEmpty ==
  (variant \in {"piped", "y2mate"} /\ accepted # "none") =>
    /\ LastContacted = accepted
    /\ variant = "piped" =>
         /\ contacted = SubSeq(PIPED_INSTANCES, 1, Len(contacted))
         /\ PipedStreamCount(data) > 0
    /\ (variant = "y2mate" /\ accepted # ConvertEndpoint) =>
         RapidHasStreams(data, req.body.quality)

\* the last provider attempt failed: rejection, non-2xx status or a payload
\* that does not parse
AttemptFailed == lastOutcome \in {"rejected", "status", "malformed"}

\* every provider of the chain has been attempted
ChainExhausted ==
  IF variant = "piped" THEN contacted = PIPED_INSTANCES
  ELSE IF variant = "y2mate" THEN AnalyzeEndpoint \in Range(contacted)
  ELSE contacted # <<>>

\* C6 as stated: in the variants with several providers, a failed attempt of
\* any kind never ends the request; an error is returned only after every
\* provider of the chain has been attempted.
C6_FailureTriesNext ==
  (Answered /\ variant \in {"piped", "y2mate"} /\ AttemptFailed) => ChainExhausted

\* the number of endpoints of the chain of the variant
ChainLength ==
  IF variant = "piped" THEN Len(PIPED_INSTANCES)
  ELSE IF variant = "y2mate" THEN 3 ELSE 1

NoDuplicates(s) == \A i, j \in 1..Len(s) : i < j => s[i] # s[j]

\* how far the request has come: grows with every step and is bounded
Rank ==
  3 * Len(contacted)
    + (IF pc = "done" THEN 2
       ELSE IF pc \in {"start", "fetch_ytstream", "fetch_piped", "fetch_rapid",
                       "fetch_analyze", "fetch_convert"} THEN 0
       ELSE 1)

C7_State ==
  /\ NoDuplicates(contacted)
  /\ Len(contacted) <= ChainLength
  /\ Rank <= 3 * ChainLength + 2
  /\ (pc = "done") = (resp # NoResponse)
  /\ pc # "done" => ENABLED Next
  /\ pc = "done" => ~ENABLED Next
  /\ (Answered /\ resp.status = 200) =>
       (accepted # "none" /\ accepted = LastContacted)
  /\ (Answered /\ accepted = "none") =>
       (resp.status >= 400 /\ resp.error # "" /\ resp.url = NoUrl)

C7_Step ==
  /\ Rank' > Rank
  /\ resp = NoResponse
  /\ accepted = "none"
  /\ \/ contacted' = contacted
     \/ \E e \in {RapidEndpoint(req.body.quality), AnalyzeEndpoint,
                  ConvertEndpoint, "ytstream"} \cup Range(PIPED_INSTANCES) :
          contacted' = Append(contacted, e)

\* C7: every request ends with exactly one response after contacting each
\* endpoint of the chain at most once: every step brings the request nearer
\* to its response and none follows it, no endpoint is contacted twice, a
\* request no provider was accepted for gets an error response, and a 200 is
\* built from the provider accepted, which is the one contacted last.
C7_OneResponse == []C7_State /\ [][C7_Step]_vars

\* all four Piped instances failed and the request was answered 502
C7_Witness ==
  /\ Answered
  /\ contacted = PIPED_INSTANCES
  /\ failed = Len(PIPED_INSTANCES)
  /\ resp.status = 502

\* C8 as stated, for the ytstream and the Piped variant: with a videoId the
\* status is 502 or 503 when no provider can be used (no credential, or the
\* attempts failed by timeout, network error or non-2xx status), 404 when a
\* provider answered and no stream fits, and 500 never for a provider that
\* timed out or is unavailable.
C8_Taxonomy ==
  (AnsweredWithId /\ variant \in {"ytstream", "piped"}) =>
    /\ contacted = <<>> => resp.status = 503
    /\ lastOutcome \in {"rejected", "status"} => resp.status \in {502, 503}
    /\ accepted # "none" => resp.status \in {200, 404}
    /\ resp.status = 500 => lastOutcome = "malformed"

\* the urls of the descriptors of the accepted payload
AcceptedUrls ==
  IF variant = "ytstream" THEN {f.url : f \in Range(data)}
  ELSE IF variant = "piped"
  THEN {f.url : f \in Range(OrEmpty(data.audioStreams))
                      \cup Range(OrEmpty(data.videoStreams))}
  ELSE IF accepted = ConvertEndpoint THEN {data.dlink}
  ELSE {data.link} \cup {f.url : f \in Range(OrEmpty(data.formats))}

\* C9: a request for which no provider answered with a stream gets an error
\* response, never a 200; every 200 to a POST carries a non-empty url, which
\* is the url of a descriptor of the payload of the accepted provider.
C9_NonEmptyUrl ==
  Answered =>
    /\ resp.status = 200 =>
         /\ resp.url # NoUrl
         /\ resp.url # ""
         /\ resp.json
         /\ accepted # "none"
         /\ resp.url \in AcceptedUrls
    /\ resp.status # 200 => (resp.status >= 400 /\ resp.error # "")
    /\ (accepted # "none" /\ AcceptedUrls \subseteq {NoUrl, ""}) =>
         resp.status >= 400

\* the accepted Piped instance answered with two empty lists: 404
C9_Witness ==
  /\ Answered
  /\ variant = "piped"
  /\ accepted # "none"
  /\ data.audioStreams = <<>>
  /\ data.videoStreams = <<>>
  /\ resp.status = 404

\* C10 as stated: a POST whose body lacks videoId (absent, empty, or a body
\* that is not a JSON object) is answered exactly 400 "videoId is required",
\* without contacting a provider and without reading the credential.
C10_MissingVideoId ==
  (Answered /\ ~TruthyUrl(VideoIdOf(req.body))) =>
    /\ resp = ErrorResponse(400, "videoId is required")
    /\ contacted = <<>>
    /\ ~keyRead

(***************************************************************************)
(* Properties of the video result and of the resolver boundary.            *)
(***************************************************************************)
\* a POST for a numeric quality that variant v answered from an accepted
\* payload
VideoAnswered(v) ==
  /\ pc = "done"
  /\ variant = v
  /\ req.method = "POST"
  /\ accepted # "none"
  /\ req.body.quality # StrAudio

\* the video descriptors the video branch chooses among: ytstream takes the
\* video/ descriptors, Piped the mp4 streams
EligibleVideo ==
  IF variant = "ytstream" THEN Range(videoFormats(data))
  ELSE Range(combinedStreams(data)) \cup Range(videoOnlyStreams(data))

\* C11 as stated: for a numeric quality, whenever the accepted list holds a
\* video descriptor with a url, the answer is a 200 with the url of one of
\* the video descriptors, however far its height is from the target.
C11_AnyVideoServed ==
  /\ VideoAnswered("ytstream") =>
       LET urls == {f.url : f \in {g \in Range(data) : MimeStartsWith(g, VideoPrefix)}}
       IN (\E u \in urls : u # NoUrl /\ u # "") =>
            (resp.status = 200 /\ resp.url \in urls)
  /\ VideoAnswered("piped") =>
       LET urls == {f.url : f \in Range(OrEmpty(data.videoStreams))}
       IN (\E u \in urls : u # NoUrl /\ u # "") =>
            (resp.status = 200 /\ resp.url \in urls)

\* C11 amended: for a numeric quality, whenever the accepted list holds an
\* eligible video descriptor (ytstream: mime type video/; Piped: mime type
\* including mp4), one of them is chosen however far its height is from the
\* target; the answer is a 200 with it exactly when the chosen descriptor
\* carries a url, so it is a 200 whenever every eligible descriptor carries
\* one.  A 404 is never due to the distance.
C11_NeverByDistance ==
  (VideoAnswered("ytstream") \/ VideoAnswered("piped")) =>
    /\ EligibleVideo # {} =>
         /\ picked \in EligibleVideo
         /\ (resp.status = 200) = (picked.url # NoUrl /\ picked.url # "")
         /\ resp.status = 200 => (resp.url = picked.url /\ resp.type = "video")
    /\ (EligibleVideo # {} /\ \A f \in EligibleVideo : f.url # "") =>
         resp.status = 200
    /\ EligibleVideo = {} => resp.status = 404

\* a catalog of 144p only, asked for 1080, yields the 144p stream
C11_Witness ==
  /\ VideoAnswered("piped")
  /\ TargetHeight = 1080
  /\ OrEmpty(data.videoStreams) # <<>>
  /\ \A st \in Range(OrEmpty(data.videoStreams)) : st.quality = L144p
  /\ resp.status = 200
  /\ resp.quality = L144p

\* C12 as stated: in every 200 video response videoOnly is true exactly when
\* the chosen descriptor carries no audio track, audioUrl is present whenever
\* it carries none, and a descriptor of the combined list gives videoOnly
\* false and no audioUrl.
C12_VideoOnlyAudioUrl ==
  /\ Served("ytstream", "video") =>
       /\ (resp.videoOnly = "true") = HasAudioFalse(picked)
       /\ resp.videoOnly \in {"true", "false"}
       /\ HasAudioFalse(picked) => (resp.audioUrl # NoUrl /\ resp.audioUrl # "")
       /\ ~HasAudioFalse(picked) => resp.audioUrl = NoUrl
  /\ Served("piped", "video") =>
       /\ (resp.videoOnly = "true") = picked.videoOnly
       /\ resp.videoOnly \in {"true", "false"}
       /\ picked.videoOnly => (resp.audioUrl # NoUrl /\ resp.audioUrl # "")
       /\ ~picked.videoOnly => resp.audioUrl = NoUrl

\* the request has been answered, whatever its method
Responded == pc = "done"

\* C13: no failure escapes the handler: a request whose handler is still
\* running can always go on, and the handler ends with a response; every
\* response carries the CORS headers, every response other than a 200 is a
\* JSON payload with an error field, and an OPTIONS request gets the empty 200
\* without its body being parsed, the credential read or a provider contacted.
C13_NothingEscapes ==
  /\ ~Responded => (ENABLED Next /\ resp = NoResponse)
  /\ Responded =>
       /\ resp.status \in {200, 400, 404, 422, 500, 502, 503}
       /\ resp.cors
       /\ resp.status # 200 => (resp.json /\ resp.error # "" /\ resp.url = NoUrl)
       /\ req.method = "OPTIONS" =>
            (resp = OptionsResponse /\ contacted = <<>> /\ ~keyRead)
       /\ AttemptFailed => resp.status # 200

\* a fetch threw and the handler answered with a JSON error
C13_Witness ==
  /\ Responded
  /\ lastOutcome = "rejected"
  /\ variant = "ytstream"
  /\ resp.status = 500
  /\ resp.cors
  /\ resp.json

(***************************************************************************)
(* Properties of the client, checked under ClientSpec.                     *)
(***************************************************************************)
\* handleDownload ends in this step
DownloadEnds == download # NoDownload /\ download' = NoDownload

\* the answer parsed in this step is a 422 or carries the error code
DegradeAnswer ==
  /\ download.stage = "json"
  /\ download.res.json
  /\ (download.res.status = 422
        \/ download.res.error = "direct_download_unavailable")

\* the answer handled in this step is a failure of another kind: a rejected
\* fetch, a body that is not JSON, a status that is not ok or an error field
OtherFailure ==
  /\ ~DegradeAnswer
  /\ \/ download.stage = "fetch"
     \/ ~download.res.json
     \/ download.res.status # 200
     \/ download.res.error # ""

C14_Step ==
  DownloadEnds =>
    /\ DegradeAnswer =>
         /\ opened' = Append(opened, WatchUrl(download.videoId))
         /\ download.res.fallbackUrl \in {NoUrl, WatchUrl(download.videoId)}
         /\ error' = "Direct download is not available for this video. Opened YouTube instead."
         /\ clicked' = clicked
         /\ ~downloadSuccess /\ ~downloadSuccess'
    /\ OtherFailure =>
         /\ opened' = opened
         /\ error' # ""
         /\ clicked' = clicked
         /\ ~downloadSuccess'

\* C14: when the resolver answers 422 or the error code
\* direct_download_unavailable, handleDownload opens the watch page of the
\* video the download was asked for (the fallbackUrl of the resolver's 422) in
\* a new tab, sets the one error message, clicks no anchor and leaves
\* downloadSuccess false; every other failure sets an error message and opens
\* no tab.
C14_GracefulDegrade == [][C14_Step]_vars

\* a download was answered 422 and the watch page opened
C14_Witness ==
  /\ opened = <<WatchUrl(SomeVideoId)>>
  /\ error = "Direct download is not available for this video. Opened YouTube instead."
  /\ ~downloading
  /\ download = NoDownload
  /\ clicked = <<>>
  /\ ~downloadSuccess

\* C15 as stated: fetchVideoInfo can be called again while a call awaits
\* oEmbed; once no call is in flight the videoInfo displayed is that of the
\* url submitted last, and loading is false only when no call is in flight.
C15_LatestWins ==
  /\ (fetches = <<>> /\ videoInfo # NoVideoInfo) =>
       videoInfo.videoId = submitted
  /\ ~loading => fetches = <<>>

\* C16 as stated: over every interleaving of fetchVideoInfo, handleDownload
\* and url edits, the success banner and an error message are never shown
\* together, and downloadSuccess is true only while a videoInfo is displayed.
C16_BannerExclusive ==
  downloadSuccess => (error = "" /\ videoInfo # NoVideoInfo)

\* what is awaited can settle, and each flag is true while its operation runs
\* and false once it has finished
C17_State ==
  /\ download = NoDownload => ~downloading
  /\ download # NoDownload =>
       (downloading /\ ENABLED (ResolverResponds \/ ResolverBody))
  /\ fetches = <<>> => ~loading
  /\ fetches # <<>> => ENABLED (OEmbedResponds \/ OEmbedBody)

\* a step of a running operation brings it nearer to its end: the awaited
\* fetch gives way to the awaited body or the operation ends, and an
\* operation that ends clears its flag in the same step
C17_Step ==
  /\ (download # NoDownload /\ download' # download) =>
       \/ download.stage = "fetch" /\ download' # NoDownload
            /\ download'.stage = "json" /\ downloading'
       \/ download' = NoDownload /\ ~downloading'
  /\ Len(fetches') < Len(fetches) => ~loading'
  /\ (Len(fetches') = Len(fetches) /\ fetches' # fetches) =>
       \E i \in 1..Len(fetches) :
         /\ fetches[i].stage = "fetch"
         /\ fetches' = [fetches EXCEPT ![i].stage = "json"]

\* C17: on every path through handleDownload (success, resolver error, thrown
\* exception, the early return of the 422 degrade) downloading is false again
\* once the awaited request has settled, and on every path through
\* fetchVideoInfo that set loading to true the call clears it when it ends;
\* neither flag is left true after its operation has finished.
C17_FlagsClear == []C17_State /\ [][C17_Step]_vars

\* a download that took the 422 early return and a metadata fetch that failed
\* have both finished, and both flags are false
C17_Witness ==
  /\ opened # <<>>
  /\ download = NoDownload
  /\ ~downloading
  /\ submitted # Null
  /\ fetches = <<>>
  /\ videoInfo = NoVideoInfo
  /\ ~loading

\* fetchVideoInfo is called in this step with a url that is empty after trim
\* or in which extractVideoId finds no identifier
RejectedSubmit == fetchVideoInfo /\ VideoIdIn[url] = Null

\* the identifiers extractVideoId produces
ExtractedIds == {VideoIdIn[u] : u \in Urls} \ {Null}

\* handleDownload calls the resolver in this step
ResolverCalled == download = NoDownload /\ download' # NoDownload

\* the resolver is called only with the identifier of the videoInfo displayed,
\* which extractVideoId produced
OnlyExtractedIds ==
  /\ videoInfo' # NoVideoInfo => videoInfo'.videoId \in ExtractedIds
  /\ ResolverCalled =>
       /\ videoInfo # NoVideoInfo
       /\ download' # NoDownload
       /\ download'.videoId = videoInfo.videoId
       /\ download'.videoId \in ExtractedIds

C18_StepAsStated ==
  /\ RejectedSubmit =>
       /\ error' # ""
       /\ videoInfo' = NoVideoInfo
       /\ ~loading'
       /\ UNCHANGED <<fetches, download>>
  /\ OnlyExtractedIds

\* C18 as stated: fetchVideoInfo with a url that is empty after trim or holds
\* no 11-character identifier sets an error message, clears videoInfo, leaves
\* loading false and makes no network request; the resolver is called only
\* when videoInfo is set, with an identifier that extractVideoId produced.
C18_ValidationLoadingFalse == [][C18_StepAsStated]_vars

C18_Step ==
  /\ RejectedSubmit =>
       /\ error' # ""
       /\ videoInfo' = NoVideoInfo
       /\ loading' = loading
       /\ loading' => fetches # <<>>
       /\ UNCHANGED <<fetches, download>>
  /\ OnlyExtractedIds

\* C18 amended: such a call sets an error message, clears videoInfo, makes no
\* network request and leaves loading as it was: false, unless an earlier
\* call of fetchVideoInfo is still awaiting oEmbed; the resolver is called
\* only when videoInfo is set, with an identifier that extractVideoId
\* produced.
C18_Validation == [][C18_Step]_vars

\* the url whose identifier is one character short was submitted and refused
C18_Witness ==
  /\ Len(url) > IdLength
  /\ Trimmed[url] = url
  /\ VideoIdIn[url] = Null
  /\ error = "Invalid YouTube URL. Please check and try again."
  /\ videoInfo = NoVideoInfo
  /\ submitted = Null
  /\ ~loading
  /\ fetches = <<>>

====
